---- MODULE Spec2Model ----
(***************************************************************************)
(* A model of the OpenDRIVE decode-validate-reduce pipeline of             *)
(* src/xodr/xml_to_dataclass_converter.py.                                 *)
(*                                                                         *)
(* The input document is an element tree (what ET.fromstring returns);     *)
(* every builder of the converter is an operator over that tree, and the   *)
(* orchestrator map_xml_to_dataclass is a state machine with one action    *)
(* per stage.  Python's None is the empty sequence and an optional value   *)
(* v is <<v>>; a builder's outcome is a record whose kind is "ok" (with    *)
(* val), "none" (the builder returned early) or "raise" (an exception      *)
(* left the builder).                                                      *)
(***************************************************************************)
EXTENDS Integers, Sequences, FiniteSets, TLC

VARIABLES root, pc, xodr_header, roads, controllers, junctions,
          open_drive_data, filtered_roads, removed_roads, result, executed

vars == <<root, pc, xodr_header, roads, controllers, junctions,
          open_drive_data, filtered_roads, removed_roads, result, executed>>

(***************************************************************************)
(* Bounds of the model.                                                    *)
(***************************************************************************)
\* longest road list of the generated documents
MaxRoads == 2
\* longest lane list of a generated right lane group
MaxLanes == 2
\* longest signal list of a generated road
MaxSignals == 2

(***************************************************************************)
(* Python values.                                                          *)
(***************************************************************************)
None == << >>
Some(v) == <<v>>

Ok(v) == [kind |-> "ok", val |-> v]
ReturnedNone == [kind |-> "none"]
Raised(e) == [kind |-> "raise", exc |-> e]

(***************************************************************************)
(* xml.etree.ElementTree: an element is its tag, its attribute map, its    *)
(* text (None or a string) and the sequence of its children.               *)
(***************************************************************************)
Elem(tag, attrib, children) ==
    [tag |-> tag, attrib |-> attrib, text |-> None, children |-> children]

NoAttrib == [k \in {} |-> ""]

\* the indices of s whose element satisfies Test, in order
RECURSIVE SelectIdx(_, _, _)
SelectIdx(s, Test(_), i) ==
    IF i > Len(s) THEN << >>
    ELSE IF Test(s[i]) THEN <<i>> \o SelectIdx(s, Test, i + 1)
         ELSE SelectIdx(s, Test, i + 1)

\* Element.findall("./tag"): the children with that tag, in document order
FindAll(e, tag) ==
    LET idx == SelectIdx(e.children, LAMBDA c : c.tag = tag, 1)
    IN  [i \in 1..Len(idx) |-> e.children[idx[i]]]

\* Element.find("./tag"): the first child with that tag, or None
Find(e, tag) ==
    LET all == FindAll(e, tag)
    IN  IF Len(all) = 0 THEN None ELSE Some(all[1])

RECURSIVE Flatten(_)
Flatten(ss) == IF Len(ss) = 0 THEN << >> ELSE Head(ss) \o Flatten(Tail(ss))

\* Element.findall("./a/b"): the b children of every a child, in document order
FindAll2(e, a, b) ==
    LET as == FindAll(e, a)
    IN  Flatten([i \in 1..Len(as) |-> FindAll(as[i], b)])

\* Element.find("./a/b")
Find2(e, a, b) ==
    LET all == FindAll2(e, a, b)
    IN  IF Len(all) = 0 THEN None ELSE Some(all[1])

\* 'k' in e.attrib
HasAttr(e, k) == k \in DOMAIN e.attrib

\* some e.attrib[k] with k in keys raises KeyError
KeyError(e, keys) == \E k \in keys : ~HasAttr(e, k)

(***************************************************************************)
(* int(), float(), bool() and str.lower() on the texts the generated       *)
(* documents use.  A float is kept in hundredths.                          *)
(***************************************************************************)
IntTable ==
    [t \in {"-4", "-3", "-2", "-1", "0", "1", "2", "3", "4", "5", "6", "7", "8", "9"} |->
        CASE t = "-4" -> 0 - 4 [] t = "-3" -> 0 - 3 [] t = "-2" -> 0 - 2
          [] t = "-1" -> 0 - 1 [] t = "0" -> 0
          [] t = "1" -> 1 [] t = "2" -> 2 [] t = "3" -> 3 [] t = "4" -> 4
          [] t = "5" -> 5 [] t = "6" -> 6 [] t = "7" -> 7 [] t = "8" -> 8
          [] t = "9" -> 9]

IsIntText(t) == t \in DOMAIN IntTable
int(t) == IntTable[t]

FloatTable ==
    [t \in {"0.0", "0.05", "0.5", "1.0", "1.5", "2.0", "2.5", "3.0", "3.5",
            "4.0", "4.5", "12.5", "100.0"} |->
        CASE t = "0.0" -> 0 [] t = "0.05" -> 5 [] t = "0.5" -> 50
          [] t = "1.0" -> 100 [] t = "1.5" -> 150 [] t = "2.0" -> 200
          [] t = "2.5" -> 250 [] t = "3.0" -> 300 [] t = "3.5" -> 350
          [] t = "4.0" -> 400 [] t = "4.5" -> 450 [] t = "12.5" -> 1250
          [] t = "100.0" -> 10000]

\* float() also accepts the integer texts
IsFloatText(t) == t \in DOMAIN FloatTable \/ IsIntText(t)
float(t) == IF t \in DOMAIN FloatTable THEN FloatTable[t] ELSE 100 * IntTable[t]

\* some int(e.attrib[k]) or float(e.attrib[k]) raises ValueError
ValueError(e, intKeys, floatKeys) ==
    \/ \E k \in intKeys : ~IsIntText(e.attrib[k])
    \/ \E k \in floatKeys : ~IsFloatText(e.attrib[k])

\* bool(text): the empty string alone is false
bool(t) == t # ""

LowerTable ==
    [t \in {"driving", "Driving", "border", "sidewalk", "SideWalk", "none",
            "None", "shoulder", "Shoulder", "median", "MEDIAN"} |->
        CASE t = "Driving" -> "driving"
          [] t = "SideWalk" -> "sidewalk"
          [] t = "None" -> "none"
          [] t = "Shoulder" -> "shoulder"
          [] t = "MEDIAN" -> "median"
          [] OTHER -> t]

lower(t) == LowerTable[t]

(***************************************************************************)
(* Sequencing of builders.  Then(r, K) continues with K on the value of a  *)
(* builder that came back with one and stops with r otherwise; ForEach     *)
(* runs a loop body over a list and keeps the list built so far when the   *)
(* body stops the loop (an early return or an exception).                  *)
(***************************************************************************)
Then(r, K(_)) == IF r.kind = "ok" THEN K(r.val) ELSE r

Stopped(r, acc) ==
    IF r.kind = "raise" THEN [kind |-> "raise", exc |-> r.exc, val |-> acc]
    ELSE [kind |-> "none", val |-> acc]

\* r is Body(elems[i])
RECURSIVE Loop(_, _, _, _, _)
Loop(Body(_), elems, i, acc, r) ==
    IF i > Len(elems) THEN Ok(acc)
    ELSE IF r.kind = "ok"
    THEN Loop(Body, elems, i + 1, Append(acc, r.val),
              IF i + 1 <= Len(elems) THEN Body(elems[i + 1]) ELSE r)
    ELSE Stopped(r, acc)

ForEach(Body(_), elems) ==
    Loop(Body, elems, 1, << >>, IF Len(elems) > 0 THEN Body(elems[1]) ELSE Ok(<< >>))

\* a loop that no body leaves by return: the list, or the exception
Built(r) == IF r.kind = "ok" THEN r ELSE Raised(r.exc)

\* a loop whose body returns the list built so far: the list up to the
\* element that made the body return, or the exception
BuiltSoFar(r) == IF r.kind = "raise" THEN Raised(r.exc) ELSE Ok(r.val)

\* the record of one element all of whose attributes are required:
\* e.attrib[k] for every key, int() or float() on the numeric ones
ReadAll(e, strKeys, intKeys, floatKeys) ==
    IF KeyError(e, strKeys \cup intKeys \cup floatKeys) THEN Raised("KeyError")
    ELSE IF ValueError(e, intKeys, floatKeys) THEN Raised("ValueError")
    ELSE Ok([k \in strKeys \cup intKeys \cup floatKeys |->
                IF k \in intKeys THEN int(e.attrib[k])
                ELSE IF k \in floatKeys THEN float(e.attrib[k])
                ELSE e.attrib[k]])

\* XODR_SABCD(s=float(s), a=float(a), b=float(b), c=float(c), d=float(d))
XODR_SABCD(e) == ReadAll(e, {}, {}, {"s", "a", "b", "c", "d"})

(***************************************************************************)
(* Lane Section Builder.                                                   *)
(***************************************************************************)
XODRUserDataVectorLane(e) == ReadAll(e, {"laneId", "travelDir"}, {}, {"sOffset"})

XODRRoadLaneSectionLCRLaneWidth(e) ==
    ReadAll(e, {}, {}, {"sOffset", "a", "b", "c", "d"})

XODRRoadLaneSectionLCRLaneRoadMark(e) ==
    IF KeyError(e, {"sOffset", "type", "material", "laneChange"})
    THEN Raised("KeyError")
    ELSE IF ValueError(e, {}, {"sOffset"}) THEN Raised("ValueError")
    ELSE IF HasAttr(e, "width") /\ ValueError(e, {}, {"width"})
    THEN Raised("ValueError")
    ELSE Ok([sOffset |-> float(e.attrib["sOffset"]),
             type |-> e.attrib["type"],
             material |-> e.attrib["material"],
             color |-> IF HasAttr(e, "color") THEN Some(e.attrib["color"]) ELSE None,
             laneChange |-> e.attrib["laneChange"],
             width |-> IF HasAttr(e, "width") THEN Some(float(e.attrib["width"]))
                       ELSE None])

\* predecessor or successor of a lane's link: None, or the record of its id
LanePredecessorSuccessor(xml_link, tag) ==
    IF xml_link = None \/ Find(xml_link[1], tag) = None THEN Ok(None)
    ELSE Then(ReadAll(Find(xml_link[1], tag)[1], {}, {"id"}, {}),
              LAMBDA rec : Ok(Some(rec)))

XODRRoadLaneSectionLCRLaneLink(lcr_lane) ==
    Then(LanePredecessorSuccessor(Find(lcr_lane, "link"), "predecessor"),
         LAMBDA pred :
    Then(LanePredecessorSuccessor(Find(lcr_lane, "link"), "successor"),
         LAMBDA succ :
    Ok([predecessor |-> pred, successor |-> succ])))

\* one iteration of the loop over the lanes of a group
XODRRoadLaneSectionLCRLane(lcr_lane) ==
    IF KeyError(lcr_lane, {"id", "type", "level"}) THEN Raised("KeyError")
    ELSE IF Find(lcr_lane, "userData") = None THEN ReturnedNone
    ELSE
      Then(Built(ForEach(XODRUserDataVectorLane,
                         FindAll(Find(lcr_lane, "userData")[1], "vectorLanes"))),
           LAMBDA xodr_vector_lanes :
      Then(Built(ForEach(XODRRoadLaneSectionLCRLaneWidth, FindAll(lcr_lane, "width"))),
           LAMBDA xodr_widths :
      Then(Built(ForEach(XODRRoadLaneSectionLCRLaneRoadMark,
                         FindAll(lcr_lane, "roadMark"))),
           LAMBDA road_marks :
      Then(XODRRoadLaneSectionLCRLaneLink(lcr_lane),
           LAMBDA lane_link :
      IF ValueError(lcr_lane, {"id"}, {}) THEN Raised("ValueError")
      ELSE Ok([id |-> int(lcr_lane.attrib["id"]),
               type |-> lcr_lane.attrib["type"],
               level |-> bool(lcr_lane.attrib["level"]),
               userData |-> [vectorLanes |-> xodr_vector_lanes],
               roadMarks |-> road_marks,
               widths |-> xodr_widths,
               link |-> lane_link])))))

\* what __get_lane_section_lane_info hands back after its loop: the group
\* record, None when a lane without userData made it return
LaneInfo(r) ==
    IF r.kind = "ok" THEN Ok(Some([lanes |-> r.val]))
    ELSE IF r.kind = "none" THEN Ok(None)
    ELSE Raised(r.exc)

\* __get_lane_section_lane_info
get_lane_section_lane_info(lane) ==
    LaneInfo(ForEach(XODRRoadLaneSectionLCRLane, FindAll(lane, "lane")))

\* the left, center or right field of the lane section
LaneGroup(xml_lane_section, side) ==
    IF Find(xml_lane_section, side) = None THEN Ok(None)
    ELSE get_lane_section_lane_info(Find(xml_lane_section, side)[1])

\* the XODRRoadLaneSection of a laneSection element
XODRRoadLaneSection(xml_lane_section) ==
    IF KeyError(xml_lane_section, {"s"}) THEN Raised("KeyError")
    ELSE IF ValueError(xml_lane_section, {}, {"s"}) THEN Raised("ValueError")
    ELSE
      Then(LaneGroup(xml_lane_section, "left"), LAMBDA left :
      Then(LaneGroup(xml_lane_section, "center"), LAMBDA center :
      Then(LaneGroup(xml_lane_section, "right"), LAMBDA right :
      Ok([s |-> float(xml_lane_section.attrib["s"]),
          left |-> left, center |-> center, right |-> right]))))

\* __get_road_lane_section
get_road_lane_section(xml_road_lanes) ==
    IF Find(xml_road_lanes, "laneSection") = None THEN ReturnedNone
    ELSE XODRRoadLaneSection(Find(xml_road_lanes, "laneSection")[1])

\* __get_road_lane_offsets
get_road_lane_offsets(xml_road_lanes) ==
    Built(ForEach(XODR_SABCD, FindAll(xml_road_lanes, "laneOffset")))

\* the XODRRoadLanes of a lanes element
XODRRoadLanes(xml_road_lanes) ==
    Then(get_road_lane_offsets(xml_road_lanes), LAMBDA xodr_lane_offsets :
    IF Len(xodr_lane_offsets) = 0 THEN ReturnedNone
    ELSE Then(get_road_lane_section(xml_road_lanes), LAMBDA xodr_lane_section :
         Ok([laneOffset |-> xodr_lane_offsets, laneSection |-> xodr_lane_section])))

\* __get_road_lanes
get_road_lanes(road) ==
    IF Find(road, "lanes") = None THEN ReturnedNone
    ELSE XODRRoadLanes(Find(road, "lanes")[1])

(***************************************************************************)
(* Road Builder: the sub-builders of one road element.                     *)
(***************************************************************************)
\* arc after one more iteration of "for arc in arcs": r is the read of the
\* curvature of the child
ArcStep(arc, r) == IF r.kind = "ok" THEN Ok(Some(r.val)) ELSE r

\* curvature of the arc variant after "for arc in arcs": every child of the
\* arc element is read, the last one stays; acc is the outcome so far
RECURSIVE ArcLoop(_, _, _)
ArcLoop(children, i, acc) ==
    IF i > Len(children) \/ acc.kind # "ok" THEN acc
    ELSE ArcLoop(children, i + 1,
                 ArcStep(acc.val, ReadAll(children[i], {}, {}, {"curvature"})))

XODRRoadPlanViewGeometryLine == [class |-> "XODRRoadPlanViewGeometryLine"]

\* the children that "len(arcs) != 0" counts and the arc loop runs over
ShapeChildren(shape) == IF shape = None THEN << >> ELSE shape[1].children

PositionalKeys == {"s", "x", "y", "hdg", "length"}

\* a loop iteration that would drop a geometry without line and arc child
\* to the all-zero segment
XODRRoadPlanViewGeometryDropped(geometry) ==
    IF HasAttr(geometry, "s") /\ KeyError(geometry, PositionalKeys)
    THEN Raised("KeyError")
    ELSE IF HasAttr(geometry, "s") /\ ValueError(geometry, {}, PositionalKeys)
    THEN Raised("ValueError")
    ELSE Then(ArcLoop(ShapeChildren(Find(geometry, "arc")), 1, Ok(None)),
              LAMBDA arc :
         Ok([k \in PositionalKeys |->
                IF HasAttr(geometry, "s")
                   /\ (Find(geometry, "line") # None \/ Find(geometry, "arc") # None)
                THEN float(geometry.attrib[k]) ELSE 0]
            @@ [line |-> IF Len(ShapeChildren(Find(geometry, "line"))) # 0
                         THEN Some(XODRRoadPlanViewGeometryLine) ELSE None,
                arc |-> arc]))

\* one iteration of the loop over the children of planView
XODRRoadPlanViewGeometry(geometry) ==
    IF HasAttr(geometry, "s") /\ KeyError(geometry, PositionalKeys)
    THEN Raised("KeyError")
    ELSE IF HasAttr(geometry, "s") /\ ValueError(geometry, {}, PositionalKeys)
    THEN Raised("ValueError")
    ELSE Then(ArcLoop(ShapeChildren(Find(geometry, "arc")), 1, Ok(None)),
              LAMBDA arc :
         Ok([k \in PositionalKeys |->
                IF HasAttr(geometry, "s") THEN float(geometry.attrib[k]) ELSE 0]
            @@ [line |-> IF Len(ShapeChildren(Find(geometry, "line"))) # 0
                         THEN Some(XODRRoadPlanViewGeometryLine) ELSE None,
                arc |-> arc]))

\* __get_road_plan_view
get_road_plan_view(road) ==
    IF Find(road, "planView") = None \/ Len(Find(road, "planView")[1].children) = 0
    THEN ReturnedNone
    ELSE Then(Built(ForEach(XODRRoadPlanViewGeometry,
                            Find(road, "planView")[1].children)),
              LAMBDA geometries : Ok([geometry |-> geometries]))

\* __get_road_elevation_profile: the loop runs over the children of the first
\* elevation element; iterating None raises TypeError
get_road_elevation_profile(road) ==
    IF Find(road, "elevationProfile") = None THEN ReturnedNone
    ELSE IF Find2(road, "elevationProfile", "elevation") = None
    THEN Raised("TypeError")
    ELSE Then(Built(ForEach(XODR_SABCD,
                            Find2(road, "elevationProfile", "elevation")[1].children)),
              LAMBDA elevations : Ok([elevations |-> elevations]))

\* __get_road_lateral_profile that would read the lateralProfile subtree
get_road_lateral_profile_own_subtree(road) ==
    IF Find(road, "lateralProfile") = None THEN ReturnedNone
    ELSE IF Find2(road, "lateralProfile", "superelevation") = None
    THEN Ok([superelevations |-> << >>])
    ELSE Then(Built(ForEach(XODR_SABCD,
                            Find2(road, "lateralProfile", "superelevation")[1].children)),
              LAMBDA superelevations : Ok([superelevations |-> superelevations]))

\* __get_road_lateral_profile: reads the elevationProfile subtree as well
get_road_lateral_profile(road) ==
    IF Find(road, "elevationProfile") = None THEN ReturnedNone
    ELSE IF Find2(road, "elevationProfile", "superelevation") = None
    THEN Ok([superelevations |-> << >>])
    ELSE Then(Built(ForEach(XODR_SABCD,
                            Find2(road, "elevationProfile", "superelevation")[1].children)),
              LAMBDA superelevations : Ok([superelevations |-> superelevations]))

\* XODRRoadType(s=float(s), type=type, speed=XODRRoadTypeSpeed(...))
XODRRoadType(xml_road_type, xml_speed) ==
    IF KeyError(xml_speed, {"max", "unit"}) THEN Raised("KeyError")
    ELSE IF ValueError(xml_road_type, {}, {"s"}) \/ ValueError(xml_speed, {"max"}, {})
    THEN Raised("ValueError")
    ELSE Ok(Some([s |-> float(xml_road_type.attrib["s"]),
                  type |-> xml_road_type.attrib["type"],
                  speed |-> [max |-> int(xml_speed.attrib["max"]),
                             unit |-> xml_speed.attrib["unit"]]]))

\* __get_road_type that would build a type record without the speed child
get_road_type_without_speed(road) ==
    IF Find(road, "type") = None THEN Ok(None)
    ELSE IF KeyError(Find(road, "type")[1], {"s", "type"}) THEN Raised("KeyError")
    ELSE IF Find2(road, "type", "speed") = None
    THEN Ok(Some([s |-> float(Find(road, "type")[1].attrib["s"]),
                  type |-> Find(road, "type")[1].attrib["type"],
                  speed |-> None]))
    ELSE XODRRoadType(Find(road, "type")[1], Find2(road, "type", "speed")[1])

\* __get_road_type
get_road_type(road) ==
    IF Find(road, "type") = None THEN Ok(None)
    ELSE IF KeyError(Find(road, "type")[1], {"s", "type"}) THEN Raised("KeyError")
    ELSE IF Find2(road, "type", "speed") = None THEN Ok(None)
    ELSE XODRRoadType(Find(road, "type")[1], Find2(road, "type", "speed")[1])

\* XODRRoadLinkPredSucc(...) if element_id != "" else None
XODRRoadLinkPredSucc(element_type, element_id, contact_point) ==
    IF element_id = "" THEN Ok(None)
    ELSE IF ~IsIntText(element_id) THEN Raised("ValueError")
    ELSE Ok(Some([elementType |-> element_type,
                  elementId |-> int(element_id),
                  contactPoint |-> IF contact_point # "" THEN Some(contact_point)
                                   ELSE None]))

\* the contactPoint attribute of an optional link element, default when the
\* element or the attribute is absent
ContactPointOf(xml_link, default) ==
    IF xml_link # None /\ HasAttr(xml_link[1], "contactPoint")
    THEN xml_link[1].attrib["contactPoint"] ELSE default

\* a local of __get_road_link read from an optional link element, "" when
\* the element is absent
LinkAttr(xml_link, k) == IF xml_link = None THEN "" ELSE xml_link[1].attrib[k]

\* __get_road_link on its two link elements: the successor's contactPoint
\* is assigned to the predecessor's local (line 742), the successor's own
\* local stays ""
XODRRoadLink(xml_road_link_pred, xml_road_link_succ) ==
    IF xml_road_link_pred # None
       /\ KeyError(xml_road_link_pred[1], {"elementType", "elementId"})
    THEN Raised("KeyError")
    ELSE IF xml_road_link_succ # None
            /\ KeyError(xml_road_link_succ[1], {"elementType", "elementId"})
    THEN Raised("KeyError")
    ELSE
      Then(XODRRoadLinkPredSucc(
               LinkAttr(xml_road_link_pred, "elementType"),
               LinkAttr(xml_road_link_pred, "elementId"),
               ContactPointOf(xml_road_link_succ,
                              ContactPointOf(xml_road_link_pred, ""))),
           LAMBDA predecessor :
      Then(XODRRoadLinkPredSucc(
               LinkAttr(xml_road_link_succ, "elementType"),
               LinkAttr(xml_road_link_succ, "elementId"),
               ""),
           LAMBDA successor :
      Ok([predecessor |-> predecessor, successor |-> successor])))

\* __get_road_link
get_road_link(road) ==
    XODRRoadLink(Find2(road, "link", "predecessor"), Find2(road, "link", "successor"))

\* an attribute that is optional: None when absent
OptStr(e, k) == IF HasAttr(e, k) THEN Some(e.attrib[k]) ELSE None
OptInt(e, k) == IF HasAttr(e, k) THEN Some(int(e.attrib[k])) ELSE None
OptFloat(e, k) == IF HasAttr(e, k) THEN Some(float(e.attrib[k])) ELSE None

\* the entries of a list of vectorSignal elements that carry a signalId
VectorSignalsOf(all, idx) ==
    [i \in 1..Len(idx) |-> [signalId |-> all[idx[i]].attrib["signalId"]]]

\* the userData.vectorSignals list of a signal: entries without signalId are
\* skipped
XODRUserDataVectorSignals(xml_user_data) ==
    VectorSignalsOf(FindAll(xml_user_data, "vectorSignal"),
                    SelectIdx(FindAll(xml_user_data, "vectorSignal"),
                              LAMBDA v : HasAttr(v, "signalId"), 1))

SignalOptInt == {"subtype", "type"}

SignalOptFloat == {"height", "hOffset", "pitch", "roll", "value", "width", "zOffset"}

\* the signal record once userData and validity are found; s is the local
\* read from attribute "t" and t the local read from attribute "s"
SignalRecord(signal, s, t, xml_user_data, xml_validity) ==
    IF KeyError(xml_validity, {"fromLane", "toLane"}) THEN Raised("KeyError")
    ELSE IF ValueError(xml_validity, {"fromLane", "toLane"}, {})
    THEN Raised("ValueError")
    ELSE IF ~IsIntText(signal.attrib["id"]) \/ ~IsFloatText(s) \/ ~IsFloatText(t)
    THEN Raised("ValueError")
    ELSE IF ValueError(signal, SignalOptInt \cap DOMAIN signal.attrib,
                       SignalOptFloat \cap DOMAIN signal.attrib)
    THEN Raised("ValueError")
    ELSE Ok([id |-> int(signal.attrib["id"]),
             s |-> float(s),
             t |-> float(t),
             orientation |-> signal.attrib["orientation"],
             country |-> OptStr(signal, "country"),
             dynamic |-> OptStr(signal, "dynamic"),
             height |-> OptFloat(signal, "height"),
             hOffset |-> OptFloat(signal, "hOffset"),
             name |-> OptStr(signal, "name"),
             pitch |-> OptFloat(signal, "pitch"),
             roll |-> OptFloat(signal, "roll"),
             subtype |-> OptInt(signal, "subtype"),
             text |-> OptStr(signal, "text"),
             type |-> OptInt(signal, "type"),
             value |-> OptFloat(signal, "value"),
             width |-> OptFloat(signal, "width"),
             zOffset |-> OptFloat(signal, "zOffset"),
             userData |-> [vectorSignals |-> XODRUserDataVectorSignals(xml_user_data)],
             validity |-> [fromLane |-> int(xml_validity.attrib["fromLane"]),
                           toLane |-> int(xml_validity.attrib["toLane"])]])

\* the signal has the userData and the validity subtree the loop looks for
SignalIsComplete(signal) ==
    Find(signal, "userData") # None /\ Find(signal, "validity") # None

\* one iteration of the loop over the signals of a road; local s is read
\* from attribute "t" and local t from attribute "s" (lines 335-336)
XODRRoadSignalReference(signal) ==
    IF KeyError(signal, {"id", "t", "s", "orientation"}) THEN Raised("KeyError")
    ELSE IF Find(signal, "userData") = None THEN ReturnedNone
    ELSE IF Find(signal, "validity") = None THEN ReturnedNone
    ELSE SignalRecord(signal, signal.attrib["t"], signal.attrib["s"],
                      Find(signal, "userData")[1], Find(signal, "validity")[1])

\* __get_road_signals that would skip a signal without userData or validity
\* and go on with the next one
get_road_signals_skipping(road, is_reference) ==
    BuiltSoFar(ForEach(XODRRoadSignalReference,
                       SelectSeq(IF ~is_reference
                                 THEN FindAll2(road, "signals", "signal")
                                 ELSE FindAll2(road, "signals", "signalReference"),
                                 LAMBDA signal : SignalIsComplete(signal))))

\* __get_road_signals: an early return hands back the signals built so far
get_road_signals(road, is_reference) ==
    BuiltSoFar(ForEach(XODRRoadSignalReference,
                       IF ~is_reference THEN FindAll2(road, "signals", "signal")
                       ELSE FindAll2(road, "signals", "signalReference")))

XODRRoadObjectsElement(obj) ==
    Then(ReadAll(obj, {"name", "orientation", "type"}, {"id"},
                 {"hdg", "length", "pitch", "roll", "s", "t", "width", "zOffset"}),
         LAMBDA rec :
    IF HasAttr(obj, "height") /\ ValueError(obj, {}, {"height"})
    THEN Raised("ValueError")
    ELSE Ok(rec @@ [height |-> OptFloat(obj, "height")]))

\* __get_road_objects
get_road_objects(road) ==
    IF Find(road, "objects") = None THEN Ok(None)
    ELSE Then(Built(ForEach(XODRRoadObjectsElement,
                            FindAll(Find(road, "objects")[1], "object"))),
              LAMBDA elements : Ok(Some([elements |-> elements])))

\* one iteration of the loop of __find_list_of_roads: the XODRRoad appended,
\* "none" where the loop returns road_list early
XODRRoad(road) ==
    IF KeyError(road, {"name", "id", "length", "junction"}) THEN Raised("KeyError")
    ELSE
      Then(get_road_link(road), LAMBDA xodr_road_link :
      Then(get_road_type(road), LAMBDA xodr_road_type :
      Then(get_road_plan_view(road), LAMBDA xodr_road_plan_view :
      Then(get_road_elevation_profile(road), LAMBDA xodr_road_elevation_profile :
      Then(get_road_lateral_profile(road), LAMBDA xodr_road_lateral_profile :
      Then(get_road_lanes(road), LAMBDA xodr_road_lanes :
      Then(get_road_signals(road, FALSE), LAMBDA xodr_road_signals :
      Then(get_road_signals(road, TRUE), LAMBDA xodr_road_signal_references :
      Then(get_road_objects(road), LAMBDA xodr_road_objects :
      IF ValueError(road, {"id", "junction"}, {"length"}) THEN Raised("ValueError")
      ELSE Ok([elevationProfile |-> xodr_road_elevation_profile,
               id |-> int(road.attrib["id"]),
               junction |-> int(road.attrib["junction"]),
               lanes |-> xodr_road_lanes,
               lateralProfile |-> xodr_road_lateral_profile,
               length |-> float(road.attrib["length"]),
               link |-> xodr_road_link,
               name |-> road.attrib["name"],
               objects |-> xodr_road_objects,
               planView |-> xodr_road_plan_view,
               signalReferences |-> xodr_road_signal_references,
               signals |-> xodr_road_signals,
               type |-> xodr_road_type]))))))))))

\* __find_list_of_roads: every "return road_list" inside the loop returns the
\* roads appended so far
find_list_of_roads(xml_root) ==
    BuiltSoFar(ForEach(XODRRoad, FindAll(xml_root, "road")))

(***************************************************************************)
(* Header, Controller and Junction Builders.                               *)
(***************************************************************************)
\* datetime.strptime(date, '%Y-%m-%dT%H:%M:%S') on the texts the documents use
DateTable ==
    [t \in {"2024-01-31T12:00:00"} |->
        [year |-> 2024, month |-> 1, day |-> 31, hour |-> 12, minute |-> 0,
         second |-> 0]]

HeaderIntKeys == {"revMajor", "revMinor", "version"}

HeaderFloatKeys == {"north", "south", "east", "west"}

\* XODRHeader(...) once every subtree of the header is found
XODRHeader(xml_header, xml_geo_reference_text, xml_user_data_vector_scene) ==
    IF KeyError(xml_user_data_vector_scene, {"program", "version"})
    THEN Raised("KeyError")
    ELSE IF ValueError(xml_header, HeaderIntKeys, HeaderFloatKeys)
            \/ xml_header.attrib["date"] \notin DOMAIN DateTable
    THEN Raised("ValueError")
    ELSE Ok([k \in HeaderIntKeys \cup HeaderFloatKeys |->
                IF k \in HeaderIntKeys THEN int(xml_header.attrib[k])
                ELSE float(xml_header.attrib[k])]
            @@ [date |-> DateTable[xml_header.attrib["date"]],
                vendor |-> xml_header.attrib["vendor"],
                name |-> xml_header.attrib["name"],
                geoReference |-> [text |-> xml_geo_reference_text],
                userData |->
                    [vectorScene |->
                        [program |-> xml_user_data_vector_scene.attrib["program"],
                         version |-> xml_user_data_vector_scene.attrib["version"]]]])

\* __find_header_data from the header element on
HeaderData(xml_header) ==
    IF KeyError(xml_header, HeaderIntKeys \cup HeaderFloatKeys
                            \cup {"date", "vendor", "name"})
    THEN Raised("KeyError")
    ELSE IF Find(xml_header, "geoReference") = None THEN ReturnedNone
    ELSE IF Find(xml_header, "geoReference")[1].text = None THEN ReturnedNone
    ELSE IF Find(xml_header, "userData") = None THEN ReturnedNone
    ELSE IF Find2(xml_header, "userData", "vectorScene") = None THEN ReturnedNone
    ELSE XODRHeader(xml_header, Find(xml_header, "geoReference")[1].text[1],
                    Find2(xml_header, "userData", "vectorScene")[1])

\* __find_header_data
find_header_data(xml_root) ==
    IF Find(xml_root, "header") = None THEN ReturnedNone
    ELSE HeaderData(Find(xml_root, "header")[1])

XODRControllerControl(control) == ReadAll(control, {"type"}, {"signalId"}, {})

\* one iteration of the loop of __find_list_of_controllers
XODRController(controller) ==
    IF KeyError(controller, {"name", "id", "sequence"}) THEN Raised("KeyError")
    ELSE Then(Built(ForEach(XODRControllerControl, FindAll(controller, "control"))),
              LAMBDA control_list :
         IF ValueError(controller, {"id", "sequence"}, {}) THEN Raised("ValueError")
         ELSE Ok([id |-> int(controller.attrib["id"]),
                  name |-> controller.attrib["name"],
                  sequence |-> int(controller.attrib["sequence"]),
                  controls |-> control_list]))

\* __find_list_of_controllers
find_list_of_controllers(xml_root) ==
    BuiltSoFar(ForEach(XODRController, FindAll(xml_root, "controller")))

XODRJunctionConnectionLaneLink(lanelink) ==
    IF KeyError(lanelink, {"from", "to"}) THEN Raised("KeyError")
    ELSE IF ValueError(lanelink, {"from", "to"}, {}) THEN Raised("ValueError")
    ELSE Ok([fromId |-> int(lanelink.attrib["from"]),
             toId |-> int(lanelink.attrib["to"])])

ConnectionIntKeys == {"id", "incomingRoad", "connectingRoad"}

XODRJunctionConnection(connection) ==
    Then(Built(ForEach(XODRJunctionConnectionLaneLink, FindAll(connection, "laneLink"))),
         LAMBDA list_of_lanelinks :
    IF KeyError(connection, ConnectionIntKeys \cup {"contactPoint"})
    THEN Raised("KeyError")
    ELSE IF ValueError(connection, ConnectionIntKeys, {}) THEN Raised("ValueError")
    ELSE Ok([k \in ConnectionIntKeys |-> int(connection.attrib[k])]
            @@ [contactPoint |-> connection.attrib["contactPoint"],
                laneLinks |-> list_of_lanelinks]))

\* the userData of a junction: set when ./userData/vectorJunction is found
JunctionUserData(vector_junction) ==
    IF vector_junction = None THEN Ok(None)
    ELSE IF KeyError(vector_junction[1], {"junctionId"}) THEN Raised("KeyError")
    ELSE Ok(Some([vectorJunction |->
                     [junctionId |-> vector_junction[1].attrib["junctionId"]]]))

\* one iteration of the loop of __find_list_of_junctions
XODRJunction(junction) ==
    IF KeyError(junction, {"id", "name"}) THEN Raised("KeyError")
    ELSE
      Then(Built(ForEach(XODRJunctionConnection, FindAll(junction, "connection"))),
           LAMBDA list_of_connections :
      IF ValueError(junction, {"id"}, {}) THEN Raised("ValueError")
      ELSE Then(JunctionUserData(Find2(junction, "userData", "vectorJunction")),
                LAMBDA user_data :
           Ok([id |-> int(junction.attrib["id"]),
               name |-> junction.attrib["name"],
               userData |-> user_data,
               connections |-> list_of_connections,
               controllers |-> << >>])))

\* __find_list_of_junctions
find_list_of_junctions(xml_root) ==
    BuiltSoFar(ForEach(XODRJunction, FindAll(xml_root, "junction")))

(***************************************************************************)
(* Filter Engine.  The road objects live in the list roads; filtered_roads *)
(* holds references to them (their indices in roads), as the Python list   *)
(* does.                                                                   *)
(***************************************************************************)
IrrelevantTypes == {"sidewalk", "none", "shoulder", "median"}

\* the lambda of __apply_filter
interested_in_type(type) == lower(type) \notin IrrelevantTypes

\* the condition without .lower(): a type is compared as it is written
lane_is_kept_as_written(lane) == lane.type \notin IrrelevantTypes

\* the condition of the list comprehension of __filter_unnessecary_lanes
lane_is_kept(lane) == lower(lane.type) \notin IrrelevantTypes

\* [left, center, right] of the lane section of a road
LaneSections(road) ==
    <<road.lanes.laneSection.left, road.lanes.laneSection.center,
      road.lanes.laneSection.right>>

\* "road not in filtered_roads": list membership by dataclass equality
road_not_in(heap, road, refs) == \A k \in 1..Len(refs) : heap[refs[k]] # road

\* __apply_filter: the road is appended at the first lane of interest
apply_filter(heap, refs, i, lane_section) ==
    IF \E k \in 1..Len(lane_section.lanes) : interested_in_type(lane_section.lanes[k].type)
    THEN Append(refs, i)
    ELSE refs

\* the list comprehension over [left, center, right] for road i
RECURSIVE FilterRoadSections(_, _, _, _)
FilterRoadSections(heap, refs, i, n) ==
    IF n > 3 THEN refs
    ELSE LET lane_section == LaneSections(heap[i])[n]
         IN  IF lane_section # None /\ road_not_in(heap, heap[i], refs)
             THEN FilterRoadSections(heap, apply_filter(heap, refs, i, lane_section[1]),
                                     i, n + 1)
             ELSE FilterRoadSections(heap, refs, i, n + 1)

RECURSIVE FilterRoadsLoop(_, _, _)
FilterRoadsLoop(heap, refs, i) ==
    IF i > Len(heap) THEN refs
    ELSE FilterRoadsLoop(heap, FilterRoadSections(heap, refs, i, 1), i + 1)

\* __filter_unnessecary_roads: (filtered_roads, removed_roads)
filter_unnessecary_roads(heap) ==
    LET refs == FilterRoadsLoop(heap, << >>, 1)
    IN  <<refs, {heap[i].id : i \in {j \in 1..Len(heap) : road_not_in(heap, heap[j], refs)}}>>

\* lanes after "for lane in lanes: if not kept: lanes.remove(lane)": the lane
\* that follows a removed one is skipped
RECURSIVE RemoveWhileIterating(_, _)
RemoveWhileIterating(lanes, i) ==
    IF i > Len(lanes) THEN lanes
    ELSE IF lane_is_kept(lanes[i]) THEN RemoveWhileIterating(lanes, i + 1)
    ELSE RemoveWhileIterating(SubSeq(lanes, 1, i - 1) \o SubSeq(lanes, i + 1, Len(lanes)),
                              i + 1)

\* the pruning written as removal from the list being iterated
PruneGroupWhileIterating(group) ==
    IF group = None THEN None
    ELSE Some([lanes |-> RemoveWhileIterating(group[1].lanes, 1)])

\* lane_section.lanes = [lane for lane in lane_section.lanes if ...]
PruneGroup(group) ==
    IF group = None THEN None
    ELSE LET idx == SelectIdx(group[1].lanes, LAMBDA lane : lane_is_kept(lane), 1)
         IN  Some([lanes |-> [k \in 1..Len(idx) |-> group[1].lanes[idx[k]]]])

\* the loop body working on a copy of the road: the road object of the root
\* is left as it was built
PruneRoadOnCopy(road) == road

\* the body of the loop of __filter_unnessecary_lanes on one road object
PruneRoad(road) ==
    [road EXCEPT !.lanes.laneSection.left = PruneGroup(@),
                 !.lanes.laneSection.center = PruneGroup(@),
                 !.lanes.laneSection.right = PruneGroup(@)]

\* __filter_unnessecary_lanes: the road objects after the loop over refs; the
\* list it returns holds the same references in the same order
RECURSIVE filter_unnessecary_lanes(_, _, _)
filter_unnessecary_lanes(heap, refs, k) ==
    IF k > Len(refs) THEN heap
    ELSE filter_unnessecary_lanes([heap EXCEPT ![refs[k]] = PruneRoad(@)], refs, k + 1)

(***************************************************************************)
(* Document Orchestrator: map_xml_to_dataclass, one action per stage.      *)
(* result is "unset" while the function runs, then "None" (return without  *)
(* a value), "triple" (the returned tuple is open_drive_data,              *)
(* filtered_roads, removed_roads) or the name of the exception raised.     *)
(* executed is the history of the stages run so far.  Before a local is    *)
(* bound it holds None or the empty collection.                            *)
(***************************************************************************)
Stages == <<"header", "roads", "controllers", "junctions", "assemble",
            "filter_roads", "filter_lanes">>

\* the function without "if xodr_header is None: return"
after_header_unchecked(r) == "roads"

\* where the function goes after a builder came back
after_header(r) == IF r.kind = "ok" THEN "roads" ELSE "done"

after_roads(r) == IF r.kind = "ok" /\ Len(r.val) # 0 THEN "controllers" ELSE "done"

\* the function without "if len(controllers) == 0: return"
after_controllers_unchecked(r) == IF r.kind = "ok" THEN "junctions" ELSE "done"

after_controllers(r) == IF r.kind = "ok" /\ Len(r.val) # 0 THEN "junctions" ELSE "done"

after_junctions(r) == IF r.kind = "ok" /\ Len(r.val) # 0 THEN "assemble" ELSE "done"

\* what the function returns or raises when it ends at a builder
Outcome(r) == IF r.kind = "raise" THEN r.exc ELSE "None"

\* pc and result after a builder came back and the function goes to next
Continue(r, next) ==
    /\ pc' = next
    /\ result' = IF next = "done" THEN Outcome(r) ELSE result

\* xodr_header = __find_header_data(root); if xodr_header is None: return
HeaderFound(r) ==
    /\ xodr_header' = IF r.kind = "ok" THEN Some(r.val) ELSE None
    /\ Continue(r, after_header(r))

\* roads = __find_list_of_roads(root); if len(roads) == 0: return
RoadsFound(r) ==
    /\ roads' = IF r.kind = "ok" THEN r.val ELSE roads
    /\ Continue(r, after_roads(r))

\* controllers = __find_list_of_controllers(root); if len(...) == 0: return
ControllersFound(r) ==
    /\ controllers' = IF r.kind = "ok" THEN r.val ELSE controllers
    /\ Continue(r, after_controllers(r))

\* junctions = __find_list_of_junctions(root); if len(...) == 0: return
JunctionsFound(r) ==
    /\ junctions' = IF r.kind = "ok" THEN r.val ELSE junctions
    /\ Continue(r, after_junctions(r))

FindHeader ==
    /\ pc = "header"
    /\ HeaderFound(find_header_data(root))
    /\ executed' = Append(executed, "header")
    /\ UNCHANGED <<root, roads, controllers, junctions, open_drive_data,
                   filtered_roads, removed_roads>>

FindRoads ==
    /\ pc = "roads"
    /\ RoadsFound(find_list_of_roads(root))
    /\ executed' = Append(executed, "roads")
    /\ UNCHANGED <<root, xodr_header, controllers, junctions, open_drive_data,
                   filtered_roads, removed_roads>>

FindControllers ==
    /\ pc = "controllers"
    /\ ControllersFound(find_list_of_controllers(root))
    /\ executed' = Append(executed, "controllers")
    /\ UNCHANGED <<root, xodr_header, roads, junctions, open_drive_data,
                   filtered_roads, removed_roads>>

FindJunctions ==
    /\ pc = "junctions"
    /\ JunctionsFound(find_list_of_junctions(root))
    /\ executed' = Append(executed, "junctions")
    /\ UNCHANGED <<root, xodr_header, roads, controllers, open_drive_data,
                   filtered_roads, removed_roads>>

\* OpenDRIVE(header, roads, controllers, junctions): its roads field is the
\* list roads itself, so OpenDRIVE_roads below reads it
Assemble ==
    /\ pc = "assemble"
    /\ open_drive_data' = Some([header |-> xodr_header[1],
                                controllers |-> controllers,
                                junctions |-> junctions])
    /\ pc' = "filter_roads"
    /\ executed' = Append(executed, "assemble")
    /\ UNCHANGED <<root, xodr_header, roads, controllers, junctions,
                   filtered_roads, removed_roads, result>>

OpenDRIVE_roads == roads

\* filtered_roads, removed_roads = __filter_unnessecary_roads(...)
RoadsFiltered(pair) ==
    /\ filtered_roads' = pair[1]
    /\ removed_roads' = pair[2]

FilterRoads ==
    /\ pc = "filter_roads"
    /\ RoadsFiltered(filter_unnessecary_roads(OpenDRIVE_roads))
    /\ pc' = "filter_lanes"
    /\ executed' = Append(executed, "filter_roads")
    /\ UNCHANGED <<root, xodr_header, roads, controllers, junctions,
                   open_drive_data, result>>

FilterLanes ==
    /\ pc = "filter_lanes"
    /\ roads' = filter_unnessecary_lanes(roads, filtered_roads, 1)
    /\ pc' = "done"
    /\ result' = "triple"
    /\ executed' = Append(executed, "filter_lanes")
    /\ UNCHANGED <<root, xodr_header, controllers, junctions, open_drive_data,
                   filtered_roads, removed_roads>>

(***************************************************************************)
(* The documents the model is run on.                                      *)
(***************************************************************************)
E(tag, attrib, children) == Elem(tag, attrib, children)

\* the text int() reads as n
IntText(n) == CHOOSE t \in DOMAIN IntTable : IntTable[t] = n

Remove(f, k) == [a \in DOMAIN f \ {k} |-> f[a]]

\* s without its i-th element
Without(s, i) == [j \in 1..(Len(s) - 1) |-> IF j < i THEN s[j] ELSE s[j + 1]]

\* every sequence over S of length at most n
RECURSIVE SeqsUpTo(_, _)
SeqsUpTo(S, n) ==
    IF n = 0 THEN {<< >>}
    ELSE LET shorter == SeqsUpTo(S, n - 1)
         IN  shorter \cup {Append(q, x) : q \in shorter, x \in S}

GeoReference == [E("geoReference", NoAttrib, << >>) EXCEPT !.text = Some("+proj=utm")]

VectorScene == E("vectorScene", [program |-> "RoadRunner", version |-> "2.0"], << >>)

Header ==
    E("header",
      [revMajor |-> "1", revMinor |-> "4", version |-> "2",
       date |-> "2024-01-31T12:00:00", north |-> "4.0", south |-> "1.0",
       east |-> "3.0", west |-> "2.0", vendor |-> "MathWorks", name |-> "town"],
      <<GeoReference, E("userData", NoAttrib, <<VectorScene>>)>>)

Sabcd(tag) ==
    E(tag, [s |-> "0.5", a |-> "1.5", b |-> "2.5", c |-> "3.5", d |-> "4.5"], << >>)

Geometry(children) ==
    E("geometry",
      [s |-> "0.5", x |-> "1.5", y |-> "2.5", hdg |-> "3.5", length |-> "12.5"],
      children)

PlanView == E("planView", NoAttrib, <<Geometry(<<E("line", NoAttrib, << >>)>>)>>)

ElevationProfile == E("elevationProfile", NoAttrib, <<Sabcd("elevation")>>)

\* a lane with the mandatory userData block
Lane(id, type) ==
    E("lane", [id |-> IntText(id), type |-> type, level |-> "false"],
      <<E("userData", NoAttrib, << >>)>>)

\* the lane group element of a side: types is the list of its lane types;
\* left lanes are numbered 1, 2, ..., right lanes -1, -2, ..., center lanes 0
Group(side, types) ==
    E(side, NoAttrib,
      [k \in 1..Len(types) |->
          Lane(IF side = "left" THEN k ELSE IF side = "right" THEN 0 - k ELSE 0,
               types[k])])

\* a lanes element; groups is a record of the sides present
Lanes(groups) ==
    LET sides == SelectIdx(<<"left", "center", "right">>,
                           LAMBDA sd : sd \in DOMAIN groups, 1)
        names == <<"left", "center", "right">>
    IN  E("lanes", NoAttrib,
          <<Sabcd("laneOffset"),
            E("laneSection", [s |-> "0.0"],
              [k \in 1..Len(sides) |-> Group(names[sides[k]], groups[names[sides[k]]])])>>)

\* a road with the mandatory substructures only
Road(id, lanes) ==
    E("road", [name |-> "road", id |-> IntText(id), length |-> "100.0",
               junction |-> "-1"],
      <<PlanView, ElevationProfile, lanes>>)

Controller ==
    E("controller", [name |-> "ctrl", id |-> "7", sequence |-> "0"],
      <<E("control", [signalId |-> "5", type |-> "0"], << >>)>>)

Junction ==
    E("junction", [id |-> "8", name |-> "junction"],
      <<E("connection",
          [id |-> "0", incomingRoad |-> "1", connectingRoad |-> "2",
           contactPoint |-> "start"],
          <<E("laneLink", [from |-> "-1", to |-> "1"], << >>)>>),
        E("userData", NoAttrib,
          <<E("vectorJunction", [junctionId |-> "{8}"], << >>)>>)>>)

\* the document with the given header (None or an element) and element lists
Document(header, road_elems, controller_elems, junction_elems) ==
    E("OpenDRIVE", NoAttrib,
      (IF header = None THEN << >> ELSE <<header[1]>>)
      \o road_elems \o controller_elems \o junction_elems)

(* Documents for the Filter Engine: the right group of the first road takes *)
(* every list of lane types, its left and center groups a few fixed lists;  *)
(* the roads after it are a copy of the first road or one of a few fixed    *)
(* roads (one of them sharing the first road's id).                         *)
LaneTypes == {"driving", "SideWalk", "median"}

GroupChoices == {None} \cup {Some(q) : q \in SeqsUpTo(LaneTypes, MaxLanes)}

LeftChoices == {None, Some(<<"MEDIAN">>), Some(<<"Driving", "shoulder">>)}

CenterChoices == {None, Some(<<"none">>), Some(<<"border">>)}

GroupsOf(l, c, r) ==
    [sd \in {x \in {"left", "center", "right"} :
                \/ x = "left" /\ l # None
                \/ x = "center" /\ c # None
                \/ x = "right" /\ r # None} |->
        IF sd = "left" THEN l[1] ELSE IF sd = "center" THEN c[1] ELSE r[1]]

FirstRoads ==
    {Road(1, Lanes(GroupsOf(l, c, r))) :
        l \in LeftChoices, c \in CenterChoices, r \in GroupChoices}

OtherRoads ==
    {Road(2, Lanes([right |-> <<"driving">>])),
     Road(1, Lanes([left |-> <<"shoulder">>, center |-> <<"none">>]))}

FilterDocuments ==
    UNION {{Document(Some(Header), <<first>> \o rest, <<Controller>>, <<Junction>>) :
               rest \in SeqsUpTo(OtherRoads \cup {first}, MaxRoads - 1)} :
           first \in FirstRoads}

(* A document that exercises every builder: one road with every optional    *)
(* substructure, one controller, one junction.                              *)
FullLane(id, type) ==
    E("lane", [id |-> IntText(id), type |-> type, level |-> "false"],
      <<E("link", NoAttrib,
          <<E("predecessor", [id |-> "2"], << >>),
            E("successor", [id |-> "3"], << >>)>>),
        E("width", [sOffset |-> "0.0", a |-> "3.5", b |-> "0.5", c |-> "1.5",
                    d |-> "2.5"], << >>),
        E("roadMark", [sOffset |-> "0.5", type |-> "solid", material |-> "standard",
                       laneChange |-> "none", color |-> "white", width |-> "0.05"],
          << >>),
        E("userData", NoAttrib,
          <<E("vectorLanes", [sOffset |-> "1.0", laneId |-> "{a}",
                              travelDir |-> "forward"], << >>)>>)>>)

Signal(tag, id) ==
    E(tag, [id |-> IntText(id), s |-> "12.5", t |-> "3.0", orientation |-> "+",
            name |-> "sign", height |-> "0.5", type |-> "1", subtype |-> "-1"],
      <<E("validity", [fromLane |-> "-1", toLane |-> "1"], << >>),
        E("userData", NoAttrib,
          <<E("vectorSignal", [signalId |-> "{s}"], << >>)>>)>>)

Object ==
    E("object",
      [hdg |-> "0.5", id |-> "6", length |-> "1.0", name |-> "pole",
       orientation |-> "none", pitch |-> "1.5", roll |-> "2.0", s |-> "2.5",
       t |-> "3.0", type |-> "pole", width |-> "3.5", zOffset |-> "4.0",
       height |-> "4.5"],
      << >>)

FullRoad ==
    E("road", [name |-> "road", id |-> "1", length |-> "100.0", junction |-> "-1"],
      <<E("link", NoAttrib,
          <<E("predecessor", [elementType |-> "road", elementId |-> "2",
                              contactPoint |-> "start"], << >>),
            E("successor", [elementType |-> "junction", elementId |-> "8"], << >>)>>),
        E("type", [s |-> "0.0", type |-> "town"],
          <<E("speed", [max |-> "5", unit |-> "mph"], << >>)>>),
        E("planView", NoAttrib,
          <<Geometry(<<E("line", NoAttrib, << >>)>>),
            Geometry(<<E("arc", [curvature |-> "0.05"], << >>)>>)>>),
        E("elevationProfile", NoAttrib,
          <<Sabcd("elevation"), Sabcd("superelevation")>>),
        E("lanes", NoAttrib,
          <<Sabcd("laneOffset"),
            E("laneSection", [s |-> "0.0"],
              <<E("left", NoAttrib, <<FullLane(1, "driving")>>),
                E("center", NoAttrib, <<FullLane(0, "none")>>),
                E("right", NoAttrib,
                  <<FullLane(0 - 1, "driving"), FullLane(0 - 2, "sidewalk")>>)>>)>>),
        E("objects", NoAttrib, <<Object>>),
        E("signals", NoAttrib, <<Signal("signal", 5), Signal("signalReference", 4)>>)>>)

FullDocument == Document(Some(Header), <<FullRoad>>, <<Controller>>, <<Junction>>)

\* every tree that is e with one attribute of one element removed; Keys(tag)
\* is the set of attribute names that may be removed from an element
RECURSIVE RemoveOneAttribute(_, _)
RemoveOneAttribute(Keys(_), e) ==
    {[e EXCEPT !.attrib = Remove(e.attrib, k)] : k \in DOMAIN e.attrib \cap Keys(e.tag)}
    \cup UNION {{[e EXCEPT !.children[i] = c] :
                    c \in RemoveOneAttribute(Keys, e.children[i])} :
                i \in DOMAIN e.children}

\* every tree that is e with one element (and its subtree) removed
RECURSIVE RemoveOneElement(_)
RemoveOneElement(e) ==
    {[e EXCEPT !.children = Without(e.children, i)] : i \in DOMAIN e.children}
    \cup UNION {{[e EXCEPT !.children[i] = c] : c \in RemoveOneElement(e.children[i])} :
                i \in DOMAIN e.children}

AttributeNames ==
    {"revMajor", "revMinor", "version", "date", "north", "south", "east", "west",
     "vendor", "name", "program", "id", "length", "junction", "elementType",
     "elementId", "contactPoint", "s", "type", "max", "unit", "x", "y", "hdg",
     "curvature", "a", "b", "c", "d", "level", "sOffset", "material", "laneChange",
     "color", "width", "laneId", "travelDir", "orientation", "pitch", "roll", "t",
     "zOffset", "height", "subtype", "fromLane", "toLane", "signalId", "sequence",
     "incomingRoad", "connectingRoad", "from", "to", "junctionId"}

EditedDocuments ==
    {FullDocument}
    \cup RemoveOneAttribute(LAMBDA tag : AttributeNames, FullDocument)
    \cup RemoveOneElement(FullDocument)

(* Documents with malformed roads at every position of the road list.       *)
GoodRoad == Road(1, Lanes([center |-> <<"none">>, right |-> <<"driving">>]))

\* road without its first child with that tag
WithoutChild(e, tag) ==
    [e EXCEPT !.children =
        Without(@, SelectIdx(e.children, LAMBDA c : c.tag = tag, 1)[1])]

\* road whose child with that tag has lost its own child named sub
WithoutGrandchild(e, tag, sub) ==
    LET i == SelectIdx(e.children, LAMBDA c : c.tag = tag, 1)[1]
    IN  [e EXCEPT !.children[i] = WithoutChild(@, sub)]

MalformedRoads ==
    {WithoutChild(GoodRoad, "planView"),
     WithoutGrandchild(GoodRoad, "planView", "geometry"),
     WithoutChild(GoodRoad, "elevationProfile"),
     WithoutGrandchild(GoodRoad, "elevationProfile", "elevation"),
     WithoutChild(GoodRoad, "lanes"),
     WithoutGrandchild(GoodRoad, "lanes", "laneOffset"),
     WithoutGrandchild(GoodRoad, "lanes", "laneSection"),
     [GoodRoad EXCEPT !.attrib = Remove(@, "length")]}

MalformedRoadDocuments ==
    {Document(Some(Header), road_elems, <<Controller>>, <<Junction>>) :
        road_elems \in SeqsUpTo({GoodRoad} \cup MalformedRoads, MaxRoads)}

(* Documents with an unreadable header or an empty top-level collection.    *)
HeaderChoices ==
    {None, Some(Header),
     Some(WithoutChild(Header, "geoReference")),
     Some([Header EXCEPT !.children[1].text = None]),
     Some(WithoutChild(Header, "userData")),
     Some(WithoutGrandchild(Header, "userData", "vectorScene"))}

HardStopDocuments ==
    {Document(h, rs, cs, js) :
        h \in HeaderChoices, rs \in SeqsUpTo({GoodRoad}, 1),
        cs \in SeqsUpTo({Controller}, 1), js \in SeqsUpTo({Junction}, 1)}

(* Documents with one road whose plan view has one geometry of every shape. *)
ShapeChoices ==
    {<< >>,
     <<E("line", NoAttrib, << >>)>>,
     <<E("line", NoAttrib, <<E("userData", NoAttrib, << >>)>>)>>,
     <<E("arc", [curvature |-> "0.05"], << >>)>>,
     <<E("arc", NoAttrib, << >>)>>,
     <<E("arc", NoAttrib, <<E("userData", [curvature |-> "0.05"], << >>)>>)>>,
     <<E("arc", [curvature |-> "0.05"], <<E("userData", NoAttrib, << >>)>>)>>,
     <<E("spiral", [curvStart |-> "0.0", curvEnd |-> "0.05"], << >>)>>}

GeometryChoices ==
    {Geometry(sh) : sh \in ShapeChoices}
    \cup {E("geometry", NoAttrib, sh) : sh \in ShapeChoices}
    \cup {E("geometry", [s |-> "0.5"], sh) : sh \in ShapeChoices}

GeometryDocuments ==
    {Document(Some(Header),
              <<[GoodRoad EXCEPT !.children[1] = E("planView", NoAttrib, <<g>>)]>>,
              <<Controller>>, <<Junction>>) :
        g \in GeometryChoices}

\* the document with that one road, a controller and a junction
OneRoadDocument(road) ==
    Document(Some(Header), <<road>>, <<Controller>>, <<Junction>>)

\* GoodRoad with other children
GoodRoadWith(children) == [GoodRoad EXCEPT !.children = children]

(* Documents with a road link of every kind.                                *)
PredecessorChoices ==
    {<< >>,
     <<E("predecessor", [elementType |-> "road", elementId |-> "2"], << >>)>>,
     <<E("predecessor", [elementType |-> "road", elementId |-> "2",
                         contactPoint |-> "start"], << >>)>>}

SuccessorChoices ==
    {<< >>,
     <<E("successor", [elementType |-> "junction", elementId |-> "8"], << >>)>>,
     <<E("successor", [elementType |-> "road", elementId |-> "3",
                       contactPoint |-> "end"], << >>)>>}

LinkDocuments ==
    {OneRoadDocument(GoodRoadWith(<<E("link", NoAttrib, p \o q)>> \o GoodRoad.children)) :
        p \in PredecessorChoices, q \in SuccessorChoices}

(* Documents with a road type and a lane road mark of every kind.           *)
TypeChoices ==
    {<< >>,
     <<E("type", [s |-> "0.0", type |-> "town"], << >>)>>,
     <<E("type", [s |-> "0.0", type |-> "town"],
         <<E("speed", [max |-> "5", unit |-> "mph"], << >>)>>)>>}

RoadMarkAttribChoices ==
    {[sOffset |-> "0.5", type |-> "solid", material |-> "standard",
      laneChange |-> "none"],
     [sOffset |-> "0.5", type |-> "solid", material |-> "standard",
      laneChange |-> "none", color |-> "white"],
     [sOffset |-> "0.5", type |-> "solid", material |-> "standard",
      laneChange |-> "none", width |-> "0.05"],
     [sOffset |-> "0.5", type |-> "solid", material |-> "standard",
      laneChange |-> "none", color |-> "white", width |-> "0.05"]}

\* a driving lane with one road mark and a userData block without entries
MarkedLane(attrib) ==
    E("lane", [id |-> "-1", type |-> "driving", level |-> "false"],
      <<E("roadMark", attrib, << >>), E("userData", NoAttrib, << >>)>>)

MarkedLanes(attrib) ==
    E("lanes", NoAttrib,
      <<Sabcd("laneOffset"),
        E("laneSection", [s |-> "0.0"],
          <<E("right", NoAttrib, <<MarkedLane(attrib)>>)>>)>>)

OptionalDocuments ==
    {OneRoadDocument(GoodRoadWith(ty \o <<PlanView, ElevationProfile, MarkedLanes(a)>>)) :
        ty \in TypeChoices, a \in RoadMarkAttribChoices}

(* Documents with signal lists in which signals lack a subtree.             *)
SignalChoices(tag) ==
    {Signal(tag, 5), Signal(tag, 4),
     WithoutChild(Signal(tag, 3), "userData"),
     WithoutChild(Signal(tag, 2), "validity")}

SignalDocuments ==
    {OneRoadDocument(GoodRoadWith(Append(GoodRoad.children, E("signals", NoAttrib, sigs)))) :
        sigs \in SeqsUpTo(SignalChoices("signal"), MaxSignals)
                 \cup SeqsUpTo(SignalChoices("signalReference"), MaxSignals)}

(* Documents whose road has a plan view without geometry or two lane        *)
(* sections.                                                                *)
TwoLaneSections ==
    [GoodRoad.children[3] EXCEPT !.children = Append(@, GoodRoad.children[3].children[2])]

StructureDocuments ==
    {OneRoadDocument(GoodRoadWith(<<PlanView, ElevationProfile, TwoLaneSections>>)),
     OneRoadDocument(GoodRoadWith(<<E("planView", NoAttrib,
                                     <<E("userData", NoAttrib, << >>)>>),
                                   ElevationProfile, GoodRoad.children[3]>>))}

(* Documents with elevation and super-elevation records of every layout.    *)
SabcdOther(tag) ==
    E(tag, [s |-> "1.0", a |-> "2.0", b |-> "3.0", c |-> "4.0", d |-> "0.05"], << >>)

ElevationChoices ==
    {<<Sabcd("elevation")>>,
     <<E("elevation", Sabcd("elevation").attrib, <<Sabcd("elevation")>>)>>,
     <<Sabcd("elevation"), SabcdOther("elevation")>>}

SuperelevationChoices ==
    {<< >>,
     <<Sabcd("superelevation")>>,
     <<E("superelevation", NoAttrib, <<Sabcd("superelevation")>>)>>}

LateralProfileChoices ==
    {<< >>,
     <<E("lateralProfile", NoAttrib,
         <<E("superelevation", NoAttrib, <<SabcdOther("superelevation")>>)>>)>>}

ProfileDocuments ==
    {OneRoadDocument(GoodRoadWith(<<PlanView, E("elevationProfile", NoAttrib, el \o su)>>
                                  \o la \o <<GoodRoad.children[3]>>)) :
        el \in ElevationChoices, su \in SuperelevationChoices,
        la \in LateralProfileChoices}

(* Documents whose lane has a level attribute of every kind.                *)
LevelChoices == {"true", "false", ""}

LevelLanes(level) ==
    E("lanes", NoAttrib,
      <<Sabcd("laneOffset"),
        E("laneSection", [s |-> "0.0"],
          <<E("right", NoAttrib,
              <<E("lane", [id |-> "-1", type |-> "driving", level |-> level],
                  <<E("userData", NoAttrib, << >>)>>)>>)>>)>>)

LevelDocuments ==
    {OneRoadDocument(GoodRoadWith(<<PlanView, ElevationProfile, LevelLanes(v)>>)) :
        v \in LevelChoices}

Documents ==
    FilterDocuments \cup EditedDocuments \cup MalformedRoadDocuments
    \cup HardStopDocuments \cup GeometryDocuments \cup LinkDocuments
    \cup OptionalDocuments \cup SignalDocuments \cup StructureDocuments
    \cup ProfileDocuments \cup LevelDocuments

(***************************************************************************)
(* The specification: map_xml_to_dataclass called on one of the documents. *)
(***************************************************************************)
Init ==
    /\ root \in Documents
    /\ pc = "header"
    /\ xodr_header = None
    /\ roads = << >>
    /\ controllers = << >>
    /\ junctions = << >>
    /\ open_drive_data = None
    /\ filtered_roads = << >>
    /\ removed_roads = {}
    /\ result = "unset"
    /\ executed = << >>

Next ==
    \/ FindHeader
    \/ FindRoads
    \/ FindControllers
    \/ FindJunctions
    \/ Assemble
    \/ FilterRoads
    \/ FilterLanes

Spec == Init /\ [][Next]_vars

(***************************************************************************)
(* The filter applied to its own output: after a run that returned, the    *)
(* lane filter is applied to the whole road list and then once more.       *)
(***************************************************************************)
AllRoads == [i \in 1..Len(roads) |-> i]

ApplyLanesFilter ==
    /\ pc = "done"
    /\ result = "triple"
    /\ roads' = filter_unnessecary_lanes(roads, AllRoads, 1)
    /\ pc' = "filtered_once"
    /\ UNCHANGED <<root, xodr_header, controllers, junctions, open_drive_data,
                   filtered_roads, removed_roads, result, executed>>

ReapplyLanesFilter ==
    /\ pc = "filtered_once"
    /\ roads' = filter_unnessecary_lanes(roads, AllRoads, 1)
    /\ pc' = "filtered_twice"
    /\ UNCHANGED <<root, xodr_header, controllers, junctions, open_drive_data,
                   filtered_roads, removed_roads, result, executed>>

NextFilterTwice ==
    \/ Next
    \/ ApplyLanesFilter
    \/ ReapplyLanesFilter

SpecFilterTwice == Init /\ [][NextFilterTwice]_vars

(***************************************************************************)
(* What the properties speak of.                                           *)
(***************************************************************************)
\* a lane type is relevant: lower-cased it is none of the four
RelevantType(type) == lower(type) \notin {"sidewalk", "none", "shoulder", "median"}

Sides == {"left", "center", "right"}

\* the road has a lane of a relevant type in its left, center or right group
HasRelevantLane(road) ==
    \E side \in Sides :
        /\ road.lanes.laneSection[side] # None
        /\ \E k \in 1..Len(road.lanes.laneSection[side][1].lanes) :
               RelevantType(road.lanes.laneSection[side][1].lanes[k].type)

\* the sub-list of the lanes of a relevant type, in their order
RECURSIVE RelevantLanes(_)
RelevantLanes(lanes) ==
    IF Len(lanes) = 0 THEN << >>
    ELSE (IF RelevantType(Head(lanes).type) THEN <<Head(lanes)>> ELSE << >>)
         \o RelevantLanes(Tail(lanes))

\* the road elements of the document and the roads the Road Builder makes
\* of them
RoadElements == FindAll(root, "road")

BuiltRoads == find_list_of_roads(root).val

\* the run returned the triple and every road element became a road
Returned == pc = "done" /\ result = "triple"

ReturnedAllRoads == Returned /\ Len(roads) = Len(RoadElements)

\* the road objects that are entries of the surviving list
Survivors == {filtered_roads[k] : k \in 1..Len(filtered_roads)}

\* the road objects without a lane of a relevant type
Dropped == {i \in 1..Len(roads) : ~HasRelevantLane(roads[i])}

(***************************************************************************)
(* Filter Engine, Pass 1.                                                  *)
(***************************************************************************)
\* C1: after Pass 1 a road object is an entry of the surviving list iff it
\* has a lane of a relevant type, the removed set is the set of the ids of
\* the roads without one, and in the returned output every surviving road
\* has a lane of a relevant type.
C1_SurvivesIffRelevant ==
    /\ pc = "filter_lanes" =>
          /\ \A i \in 1..Len(roads) : i \in Survivors <=> HasRelevantLane(roads[i])
          /\ removed_roads = {roads[i].id : i \in Dropped}
    /\ Returned => \A i \in Survivors : HasRelevantLane(roads[i])

\* C10: after Pass 1 the surviving list holds no road object twice, holds
\* them in the order of the road list, holds every road with a relevant
\* lane, and survivors plus dropped roads are as many as the roads.
C10_NoDuplicateNoReorder ==
    pc = "filter_lanes" =>
        /\ \A k, l \in 1..Len(filtered_roads) :
               k < l => filtered_roads[k] < filtered_roads[l]
        /\ \A i \in 1..Len(roads) : HasRelevantLane(roads[i]) => i \in Survivors
        /\ Len(filtered_roads) + Cardinality(Dropped) = Len(roads)

(***************************************************************************)
(* Filter Engine, Pass 2.                                                  *)
(***************************************************************************)
\* the group after Pass 2 is the group before it cut down to its relevant
\* lanes; an absent group stays absent
PrunedTo(before, after) ==
    IF before = None THEN after = None
    ELSE after # None /\ after[1].lanes = RelevantLanes(before[1].lanes)

\* C2: Pass 2 leaves in every present lane group of every surviving road
\* exactly the lanes of a relevant type, in their original order.
C2_PrunesToRelevant ==
    [][pc = "filter_lanes" =>
          \A i \in Survivors : \A side \in Sides :
              PrunedTo(roads[i].lanes.laneSection[side],
                       roads'[i].lanes.laneSection[side])]_vars

C2_Witness ==
    /\ Returned
    /\ \E i \in Survivors :
           /\ roads[i].lanes.laneSection.right # None
           /\ Len(roads[i].lanes.laneSection.right[1].lanes)
                  < Len(BuiltRoads[i].lanes.laneSection.right[1].lanes)

\* C9: applying Pass 2 to its own output changes no road: every lane group
\* is the same before and after the second application.
C9_Idempotent == [][pc = "filtered_once" => roads' = roads]_vars

C9_Witness ==
    /\ pc = "filtered_twice"
    /\ \E i \in 1..Len(roads) : roads[i] # BuiltRoads[i]

(***************************************************************************)
(* Document Orchestrator.                                                  *)
(***************************************************************************)
\* a road element the Road Builder makes no road of
Malformed(road) == XODRRoad(road).kind # "ok"

\* C3: a document with a road element that fails to build never returns
\* the triple.
C3_FailFast ==
    pc = "done" /\ (\E i \in 1..Len(RoadElements) : Malformed(RoadElements[i]))
        => result # "triple"

\* a mandatory part of the document is absent
MissingMandatory ==
    \/ Find(root, "header") = None
    \/ Find2(root, "header", "geoReference") = None
    \/ Find2(root, "header", "geoReference")[1].text = None
    \/ Find2(root, "header", "userData") = None
    \/ Find(Find2(root, "header", "userData")[1], "vectorScene") = None
    \/ Len(FindAll(root, "road")) = 0
    \/ Len(FindAll(root, "controller")) = 0
    \/ Len(FindAll(root, "junction")) = 0

\* C4: a run on a document without header, geoReference element or text,
\* userData/vectorScene, roads, controllers or junctions does not return
\* the triple; a run that returns it has a root entity, at least one road,
\* one controller and one junction.
C4_HardStops ==
    pc = "done" =>
        /\ MissingMandatory => result # "triple"
        /\ result = "triple" =>
              /\ open_drive_data # None
              /\ Len(roads) >= 1
              /\ Len(controllers) >= 1
              /\ Len(junctions) >= 1

C4_Witness ==
    /\ pc = "done"
    /\ result = "None"
    /\ Find(root, "header") # None
    /\ Find2(root, "header", "geoReference") = None

\* C5: the stages run are a prefix of header, roads, controllers,
\* junctions, assembly, Pass 1, Pass 2; a stage runs only after the one
\* before it succeeded; a run that failed ended at the stage that failed,
\* one of the first four, and nothing of a later stage exists; the run
\* returns the triple exactly when all seven stages ran.
C5_StageOrder ==
    /\ Len(executed) <= Len(Stages)
    /\ \A i \in 1..Len(executed) : executed[i] = Stages[i]
    /\ Len(executed) >= 2 => xodr_header # None
    /\ Len(executed) >= 3 => Len(roads) # 0
    /\ Len(executed) >= 4 => Len(controllers) # 0
    /\ Len(executed) >= 5 => Len(junctions) # 0
    /\ pc = "done" <=> result # "unset"
    /\ result = "triple" <=> Len(executed) = Len(Stages)
    /\ result \notin {"unset", "triple"} =>
          /\ Len(executed) \in 1..4
          /\ Len(executed) = 1 => xodr_header = None
          /\ Len(executed) = 2 => Len(roads) = 0
          /\ Len(executed) = 3 => Len(controllers) = 0
          /\ Len(executed) = 4 => Len(junctions) = 0
          /\ open_drive_data = None
          /\ filtered_roads = << >>
          /\ removed_roads = {}

C5_Witness ==
    /\ pc = "done"
    /\ result = "None"
    /\ executed = <<"header", "roads", "controllers">>

(***************************************************************************)
(* Builders.                                                               *)
(***************************************************************************)
\* the attributes the builders are to require, by element
RequiredKeys(tag) ==
    CASE tag = "header" -> {"revMajor", "revMinor", "version", "date", "north",
                            "south", "east", "west", "vendor", "name"}
      [] tag = "road" -> {"name", "id", "length", "junction"}
      [] tag \in {"predecessor", "successor"} -> {"elementType", "elementId"}
      [] tag = "arc" -> {"curvature"}
      [] tag = "object" -> {"hdg", "id", "length", "name", "orientation", "pitch",
                            "roll", "s", "t", "type", "width", "zOffset"}
      [] tag \in {"signal", "signalReference"} -> {"id", "s", "t", "orientation"}
      [] tag = "validity" -> {"fromLane", "toLane"}
      [] tag = "controller" -> {"name", "id", "sequence"}
      [] tag = "control" -> {"signalId", "type"}
      [] tag = "junction" -> {"id", "name"}
      [] tag = "connection" -> {"id", "incomingRoad", "connectingRoad",
                                "contactPoint"}
      [] tag = "laneLink" -> {"from", "to"}
      [] OTHER -> {}

\* C6: the valid document with one required attribute removed never returns
\* the triple.
C6_RequiredAbort ==
    pc = "done" /\ root \in RemoveOneAttribute(RequiredKeys, FullDocument)
        => result # "triple"

\* every signal record is that of the signal element at its place, field
\* s from attribute s and field t from attribute t
SignalsRoundTrip(signals, elems) ==
    \A j \in 1..Len(signals) :
        /\ signals[j].id = int(elems[j].attrib["id"])
        /\ signals[j].s = float(elems[j].attrib["s"])
        /\ signals[j].t = float(elems[j].attrib["t"])

\* C7: in a returned result the numeric fields of every road and of every
\* signal and signal reference are the parsed values of the attributes of
\* the same name.
C7_RoundTrip ==
    ReturnedAllRoads =>
        \A i \in 1..Len(roads) :
            /\ roads[i].id = int(RoadElements[i].attrib["id"])
            /\ roads[i].junction = int(RoadElements[i].attrib["junction"])
            /\ roads[i].length = float(RoadElements[i].attrib["length"])
            /\ SignalsRoundTrip(roads[i].signals,
                                FindAll2(RoadElements[i], "signals", "signal"))
            /\ SignalsRoundTrip(roads[i].signalReferences,
                                FindAll2(RoadElements[i], "signals", "signalReference"))

\* the segment built of a geometry element: zeros without an s attribute,
\* the arc variant with its curvature for an arc child that has one
SegmentOf(g, seg) ==
    /\ ~HasAttr(g, "s") =>
          seg.s = 0 /\ seg.x = 0 /\ seg.y = 0 /\ seg.hdg = 0 /\ seg.length = 0
    /\ Find(g, "arc") # None /\ HasAttr(Find(g, "arc")[1], "curvature") =>
          seg.arc = Some([curvature |-> float(Find(g, "arc")[1].attrib["curvature"])])

\* C8: in a returned result every segment is the one its geometry element
\* describes.
C8_Geometry ==
    ReturnedAllRoads =>
        \A i \in 1..Len(roads) :
            \A j \in 1..Len(roads[i].planView.geometry) :
                SegmentOf(Find(RoadElements[i], "planView")[1].children[j],
                          roads[i].planView.geometry[j])

(***************************************************************************)
(* Claims about the sub-builders of a road.  They are stated on the road   *)
(* list right after the Road Builder ran, before any filtering: entry i of *)
(* the list was built from road element i of the document.                 *)
(***************************************************************************)
RoadsBuilt == pc = "controllers"

\* the lane group element of a side of the lane section the builder reads
GroupElement(road, side) ==
    Find(Find2(road, "lanes", "laneSection")[1], side)[1]

\* a road mark record against the roadMark element it was built from
RoadMarkDefaults(mark, e) ==
    /\ ~HasAttr(e, "color") => mark.color = None
    /\ ~HasAttr(e, "width") => mark.width = None
    /\ HasAttr(e, "color") => mark.color = Some(e.attrib["color"])
    /\ HasAttr(e, "width") => mark.width = Some(float(e.attrib["width"]))
    /\ mark.sOffset = float(e.attrib["sOffset"])
    /\ mark.type = e.attrib["type"]
    /\ mark.material = e.attrib["material"]
    /\ mark.laneChange = e.attrib["laneChange"]

\* every road mark of every lane of a built lane group has the defaults
LaneRoadMarkDefaults(lane, e) ==
    /\ Len(lane.roadMarks) = Len(FindAll(e, "roadMark"))
    /\ \A m \in 1..Len(lane.roadMarks) :
           RoadMarkDefaults(lane.roadMarks[m], FindAll(e, "roadMark")[m])

RoadMarksDefault(road, e) ==
    \A side \in Sides :
        road.lanes.laneSection[side] # None =>
            \A k \in 1..Len(road.lanes.laneSection[side][1].lanes) :
                LaneRoadMarkDefaults(road.lanes.laneSection[side][1].lanes[k],
                                     FindAll(GroupElement(e, side), "lane")[k])

\* C11: a built road has a type record exactly when its element has a type
\* child with a nested speed child, and type = None otherwise; a road mark
\* without color and width attributes has both unset while sOffset, type,
\* material and laneChange are the values of the source
C11_OptionalDefaults ==
    RoadsBuilt =>
        \A i \in 1..Len(roads) :
            /\ roads[i].type # None
                   <=> /\ Find(RoadElements[i], "type") # None
                       /\ Find2(RoadElements[i], "type", "speed") # None
            /\ RoadMarksDefault(roads[i], RoadElements[i])

\* a road with a type child without speed and a road mark without color and
\* width was built
C11_Witness ==
    /\ RoadsBuilt
    /\ \E i \in 1..Len(roads) :
           /\ Find(RoadElements[i], "type") # None
           /\ Find2(RoadElements[i], "type", "speed") = None
           /\ roads[i].type = None
           /\ roads[i].lanes.laneSection.right # None
           /\ \E m \in 1..Len(roads[i].lanes.laneSection.right[1].lanes[1].roadMarks) :
                  /\ roads[i].lanes.laneSection.right[1].lanes[1].roadMarks[m].color = None
                  /\ roads[i].lanes.laneSection.right[1].lanes[1].roadMarks[m].width = None
                  /\ roads[i].lanes.laneSection.right[1].lanes[1].roadMarks[m].sOffset = 50

\* a link record against the optional predecessor or successor element it
\* was built from
LinkRecordOf(rec, xml_link) ==
    /\ rec # None <=> xml_link # None
    /\ rec # None => rec[1].contactPoint = OptStr(xml_link[1], "contactPoint")

\* C12: the predecessor record of a built road is present exactly when the
\* road element has a link/predecessor element and the successor record
\* exactly when it has a link/successor element, and the contactPoint of
\* each record is the contactPoint attribute of its own element, unset when
\* that attribute is absent
C12_LinkIndependent ==
    RoadsBuilt =>
        \A i \in 1..Len(roads) :
            /\ LinkRecordOf(roads[i].link.predecessor,
                            Find2(RoadElements[i], "link", "predecessor"))
            /\ LinkRecordOf(roads[i].link.successor,
                            Find2(RoadElements[i], "link", "successor"))

\* some lane of the left, center or right group of the lane section of the
\* road element has no userData child
LaneWithoutUserData(road) ==
    /\ Find2(road, "lanes", "laneSection") # None
    /\ \E side \in Sides :
           /\ Find(Find2(road, "lanes", "laneSection")[1], side) # None
           /\ \E k \in 1..Len(FindAll(GroupElement(road, side), "lane")) :
                  Find(FindAll(GroupElement(road, side), "lane")[k], "userData") = None

\* the lanes of a built group carry one vector-lane record per vectorLanes
\* entry of their userData
VectorLanesBuilt(lanes, elems) ==
    /\ Len(lanes) = Len(elems)
    /\ \A k \in 1..Len(lanes) :
           Len(lanes[k].userData.vectorLanes)
               = Len(FindAll(Find(elems[k], "userData")[1], "vectorLanes"))

\* C13: no road is built from a road element that has a lane without
\* userData in its left, center or right group, and a document whose first
\* road has such a lane does not return the triple; a lane group whose lanes
\* all have userData is built with every lane, lanes with zero vectorLanes
\* entries having an empty vector-lane list
C13_LaneUserDataAborts ==
    /\ RoadsBuilt =>
           \A i \in 1..Len(roads) :
               /\ ~LaneWithoutUserData(RoadElements[i])
               /\ \A side \in Sides :
                      Find(Find2(RoadElements[i], "lanes", "laneSection")[1], side) # None
                          => /\ roads[i].lanes.laneSection[side] # None
                             /\ VectorLanesBuilt(
                                    roads[i].lanes.laneSection[side][1].lanes,
                                    FindAll(GroupElement(RoadElements[i], side), "lane"))
    /\ (Len(RoadElements) > 0 /\ LaneWithoutUserData(RoadElements[1]))
           => result # "triple"

\* C14: every built road comes from a road element whose planView has at
\* least one geometry child and whose lanes element has at least one
\* laneOffset and exactly one laneSection
C14_StructuralRequirements ==
    RoadsBuilt =>
        \A i \in 1..Len(roads) :
            /\ Len(FindAll2(RoadElements[i], "planView", "geometry")) >= 1
            /\ Len(FindAll2(RoadElements[i], "lanes", "laneOffset")) >= 1
            /\ Len(FindAll2(RoadElements[i], "lanes", "laneSection")) = 1

\* position of the first signal without userData or validity at or after
\* k, one more than the length when there is none
RECURSIVE FirstIncomplete(_, _)
FirstIncomplete(elems, k) ==
    IF k > Len(elems) \/ ~SignalIsComplete(elems[k]) THEN k
    ELSE FirstIncomplete(elems, k + 1)

\* the list holds the records of the signals that precede the first signal
\* without userData or validity, and nothing else
Truncated(signals, elems) ==
    /\ Len(signals) = FirstIncomplete(elems, 1) - 1
    /\ \A k \in 1..Len(signals) :
           /\ signals[k].id = int(elems[k].attrib["id"])
           /\ signals[k].orientation = elems[k].attrib["orientation"]
           /\ signals[k].validity.fromLane
                  = int(Find(elems[k], "validity")[1].attrib["fromLane"])
           /\ signals[k].validity.toLane
                  = int(Find(elems[k], "validity")[1].attrib["toLane"])

\* the road element without its signals children
WithoutSignals(road) ==
    [road EXCEPT !.children = SelectSeq(@, LAMBDA c : c.tag # "signals")]

\* every signal and signal reference of the road element either lacks a
\* subtree, its id, s, t and orientation being present, or is read without
\* an exception
SignalsReadable(road) ==
    \A tag \in {"signal", "signalReference"} :
        \A k \in 1..Len(FindAll2(road, "signals", tag)) :
            XODRRoadSignalReference(FindAll2(road, "signals", tag)[k]).kind
                \in {"ok", "none"}

\* the Road Builder has run
RoadsStageRan == \E k \in 1..Len(executed) : executed[k] = "roads"

\* C15: the signal list and the signal-reference list of a built road are
\* the records, in document order, of the signals that precede the first
\* signal without userData or validity (the empty list when the road has no
\* signals element), and signals lacking a subtree stop no road from being
\* built: when every road element builds without its signals, every road is
\* built with them
C15_SignalTruncation ==
    /\ RoadsBuilt =>
           \A i \in 1..Len(roads) :
               /\ Truncated(roads[i].signals,
                            FindAll2(RoadElements[i], "signals", "signal"))
               /\ Truncated(roads[i].signalReferences,
                            FindAll2(RoadElements[i], "signals", "signalReference"))
               /\ Find(RoadElements[i], "signals") = None
                      => roads[i].signals = << >> /\ roads[i].signalReferences = << >>
    /\ (/\ RoadsStageRan
        /\ \A j \in 1..Len(RoadElements) :
               /\ ~Malformed(WithoutSignals(RoadElements[j]))
               /\ SignalsReadable(RoadElements[j]))
           => Len(roads) = Len(RoadElements)

\* the triple was returned for a road whose second signal lacks a subtree
\* and whose signal list holds the first signal alone
C15_Witness ==
    /\ Returned
    /\ \E i \in 1..Len(roads) :
           /\ Len(FindAll2(RoadElements[i], "signals", "signal")) = 2
           /\ SignalIsComplete(FindAll2(RoadElements[i], "signals", "signal")[1])
           /\ ~SignalIsComplete(FindAll2(RoadElements[i], "signals", "signal")[2])
           /\ Len(roads[i].signals) = 1
           /\ roads[i].signals[1].id = 5

\* C16: every segment of a built road whose geometry element has a line
\* child has line set and arc unset, and every segment whose geometry
\* element has an arc child has arc set and line unset
C16_OneShapeVariant ==
    RoadsBuilt =>
        \A i \in 1..Len(roads) :
            \A j \in 1..Len(roads[i].planView.geometry) :
                /\ Find(Find(RoadElements[i], "planView")[1].children[j], "line") # None
                       => /\ roads[i].planView.geometry[j].line # None
                          /\ roads[i].planView.geometry[j].arc = None
                /\ Find(Find(RoadElements[i], "planView")[1].children[j], "arc") # None
                       => /\ roads[i].planView.geometry[j].arc # None
                          /\ roads[i].planView.geometry[j].line = None

\* the geometry element has a shape child that is neither line nor arc
ThirdShapeKind(g) ==
    Len(g.children) > 0 /\ Find(g, "line") = None /\ Find(g, "arc") = None

\* the segment has neither variant and zero in every positional field
AllZeroSegment(seg) ==
    /\ seg.line = None /\ seg.arc = None
    /\ \A k \in PositionalKeys : seg[k] = 0

\* C17 as stated: a geometry element with a third shape kind is built as an
\* all-zero segment, also when it carries positional attributes
C17_ThirdShapeAllZero ==
    RoadsBuilt =>
        \A i \in 1..Len(roads) :
            \A j \in 1..Len(roads[i].planView.geometry) :
                ThirdShapeKind(Find(RoadElements[i], "planView")[1].children[j])
                    => AllZeroSegment(roads[i].planView.geometry[j])

\* the segment has neither variant; its positional fields are the element's
\* attributes when the element has an s attribute and zero otherwise
ShapelessSegment(seg, g) ==
    /\ seg.line = None /\ seg.arc = None
    /\ \A k \in PositionalKeys :
           seg[k] = IF HasAttr(g, "s") THEN float(g.attrib[k]) ELSE 0

\* C17: a geometry element with a third shape kind is built, without
\* aborting, with line and arc unset; s, x, y, hdg and length are read from
\* its attributes when it has an s attribute and are 0.0 only when it has
\* none
C17_ThirdShapeKeepsPosition ==
    RoadsBuilt =>
        \A i \in 1..Len(roads) :
            \A j \in 1..Len(roads[i].planView.geometry) :
                ThirdShapeKind(Find(RoadElements[i], "planView")[1].children[j])
                    => ShapelessSegment(roads[i].planView.geometry[j],
                                        Find(RoadElements[i], "planView")[1].children[j])

\* a road was built whose segment of a third shape kind has its s attribute
\* in its s field
C17_Witness ==
    /\ RoadsBuilt
    /\ \E i \in 1..Len(roads) :
           \E j \in 1..Len(roads[i].planView.geometry) :
               /\ ThirdShapeKind(Find(RoadElements[i], "planView")[1].children[j])
               /\ HasAttr(Find(RoadElements[i], "planView")[1].children[j], "s")
               /\ roads[i].planView.geometry[j].s # 0
               /\ roads[i].planView.geometry[j].line = None
               /\ roads[i].planView.geometry[j].arc = None

\* the (s,a,b,c,d) record of a polynomial element
SabcdOf(rec, e) ==
    \A k \in {"s", "a", "b", "c", "d"} : rec[k] = float(e.attrib[k])

\* the list holds one record per element, in the order of the elements
SabcdList(recs, elems) ==
    /\ Len(recs) = Len(elems)
    /\ \A k \in 1..Len(recs) : SabcdOf(recs[k], elems[k])

\* C18: every built road comes from a road element that has an
\* elevationProfile with at least one elevation child, and its elevation
\* list holds one (s,a,b,c,d) record per elevation child of that
\* elevationProfile, in document order
C18_ElevationProfile ==
    RoadsBuilt =>
        \A i \in 1..Len(roads) :
            /\ Find(RoadElements[i], "elevationProfile") # None
            /\ Len(FindAll2(RoadElements[i], "elevationProfile", "elevation")) >= 1
            /\ SabcdList(roads[i].elevationProfile.elevations,
                         FindAll2(RoadElements[i], "elevationProfile", "elevation"))

\* C19: the super-elevation list of a built road holds the records read
\* under the superelevation element of the road's elevationProfile and none
\* read from a lateralProfile element; it is empty when the elevationProfile
\* has no superelevation child; no road is built from a road element
\* without an elevationProfile
C19_LateralProfile ==
    RoadsBuilt =>
        \A i \in 1..Len(roads) :
            /\ Find(RoadElements[i], "elevationProfile") # None
            /\ Find2(RoadElements[i], "elevationProfile", "superelevation") = None
                   => roads[i].lateralProfile.superelevations = << >>
            /\ Find2(RoadElements[i], "elevationProfile", "superelevation") # None
                   => SabcdList(roads[i].lateralProfile.superelevations,
                                Find2(RoadElements[i], "elevationProfile",
                                      "superelevation")[1].children)

\* a road with super-elevation records under a lateralProfile element and
\* none under its elevationProfile was built with an empty list
C19_Witness ==
    /\ RoadsBuilt
    /\ \E i \in 1..Len(roads) :
           /\ Find2(RoadElements[i], "lateralProfile", "superelevation") # None
           /\ Len(Find2(RoadElements[i], "lateralProfile", "superelevation")[1].children) > 0
           /\ Find2(RoadElements[i], "elevationProfile", "superelevation") = None
           /\ roads[i].lateralProfile.superelevations = << >>

(***************************************************************************)
(* Filter Engine: what the two passes change.                              *)
(***************************************************************************)
\* the road after Pass 2 differs from the road before in the lane lists of
\* its lane groups at most
OnlyLaneListsChanged(before, after) ==
    /\ [after EXCEPT !.lanes.laneSection.left = before.lanes.laneSection.left,
                     !.lanes.laneSection.center = before.lanes.laneSection.center,
                     !.lanes.laneSection.right = before.lanes.laneSection.right]
           = before
    /\ \A side \in Sides :
           /\ before.lanes.laneSection[side] = None
                  <=> after.lanes.laneSection[side] = None
           /\ after.lanes.laneSection[side] # None =>
                  /\ DOMAIN after.lanes.laneSection[side][1] = {"lanes"}
                  /\ \A k \in 1..Len(after.lanes.laneSection[side][1].lanes) :
                         RelevantType(after.lanes.laneSection[side][1].lanes[k].type)

\* C20: the surviving list refers to road objects of the root's road list;
\* Pass 1 changes no road and no other record of the root; Pass 2 changes
\* nothing but the lane lists of the present lane groups of the surviving
\* roads, which hold lanes of a relevant type only afterwards: a road that
\* is no entry of the surviving list keeps all its lanes, absent groups stay
\* absent, present groups stay present, and the header, the controllers,
\* the junctions and the number and order of the roads stay as they were
C20_InPlaceFrame ==
    [][/\ pc = "filter_roads" =>
              /\ roads' = roads
              /\ open_drive_data' = open_drive_data
              /\ Survivors' \subseteq 1..Len(roads)
       /\ pc = "filter_lanes" =>
              /\ open_drive_data' = open_drive_data
              /\ xodr_header' = xodr_header
              /\ controllers' = controllers
              /\ junctions' = junctions
              /\ filtered_roads' = filtered_roads
              /\ removed_roads' = removed_roads
              /\ Len(roads') = Len(roads)
              /\ \A i \in 1..Len(roads) :
                     IF i \in Survivors
                     THEN OnlyLaneListsChanged(roads[i], roads'[i])
                     ELSE roads'[i] = roads[i]]_vars

\* the triple was returned with a surviving road of the root that lost
\* every lane of a group that is still present, and with a road that is no
\* entry of the surviving list and has all the lanes it was built with
C20_Witness ==
    /\ Returned
    /\ \E i \in Survivors :
           \E side \in Sides :
               /\ roads[i].lanes.laneSection[side] # None
               /\ roads[i].lanes.laneSection[side][1].lanes = << >>
               /\ BuiltRoads[i].lanes.laneSection[side][1].lanes # << >>
    /\ \E j \in (1..Len(roads)) \ Survivors :
           /\ roads[j] = BuiltRoads[j]
           /\ \E side \in Sides :
                  /\ roads[j].lanes.laneSection[side] # None
                  /\ roads[j].lanes.laneSection[side][1].lanes # << >>

\* C21: in a returned result no id of the removed set is the id of a road
\* of the surviving list
C21_RemovedDisjointFromSurvivors ==
    Returned => removed_roads \cap {roads[i].id : i \in Survivors} = {}

\* the level flag of a lane record against the level attribute of its lane
\* element
LevelOf(lane, e) ==
    /\ e.attrib["level"] = "true" => lane.level = TRUE
    /\ e.attrib["level"] = "false" => lane.level = FALSE

\* C22: the level flag of every lane of a built road is true when the
\* level attribute of its lane element is "true" and false when it is
\* "false"
C22_LevelFlag ==
    RoadsBuilt =>
        \A i \in 1..Len(roads) :
            \A side \in Sides :
                roads[i].lanes.laneSection[side] # None =>
                    \A k \in 1..Len(roads[i].lanes.laneSection[side][1].lanes) :
                        LevelOf(roads[i].lanes.laneSection[side][1].lanes[k],
                                FindAll(GroupElement(RoadElements[i], side), "lane")[k])

====
